---- MODULE Spec2Model ----
(***************************************************************************)
(* PdfPane: the document view and highlight synchronisation of the PDF     *)
(* viewer (src/src/components/Sidebar.jsx lines 30-292; the older copy in  *)
(* src/src/components/PdfPane.jsx has the same load loop, mapper and       *)
(* scheduler without the HEAD request, the dynamic import and the          *)
(* error/loading state).                                                   *)
(*                                                                         *)
(* Lengths are CSS pixels.  A normalised coordinate is kept in tenths      *)
(* (bbox <<1,2,5,6>> is (0.1,0.2,0.5,0.6)); every page box used here has a *)
(* width and a height that are multiples of 10, so Frac is exact.          *)
(***************************************************************************)
EXTENDS Integers, Sequences, FiniteSets, TLC

\* ---------------------------------------------------------------- bounds
MaxLoads  == 2   \* runs of the load effect over the life of one view
MaxPages  == 2   \* pages of a loaded document
MaxTimers == 1   \* 50 ms mutation timers pending at once
MaxTrig   == 2   \* where the count of coalesced triggers saturates
MaxEvents == 2   \* selections, resizes and scrolls by the host and the user

\* ------------------------------------------------------ program constants
Padding      == 12   \* padding of the scroll container
MarginBottom == 12   \* wrapper.style.marginBottom
MinSize      == 2    \* Math.max(2, ...)

\* ------------------------------------------------------------------ data
NoChunk == [chunk_id |-> "none", page |-> 0, bbox_normalized |-> <<0, 0, 0, 0>>]

\* The chunks the host can select: one on page 1 and a zero-area one on
\* page 2, which a one-page document does not have.
Chunks ==
  { [chunk_id |-> "A", page |-> 1, bbox_normalized |-> <<1, 2, 5, 6>>],
    [chunk_id |-> "B", page |-> 2, bbox_normalized |-> <<3, 3, 3, 3>>] }

Selections == Chunks \cup {NoChunk}

\* Canvas size of every page of the modelled documents (viewport at scale 1).
PageSize == [w |-> 600, h |-> 800]

\* Client sizes of the scroll container the window can give it.
WinSizes == << [w |-> 624, h |-> 400], [w |-> 324, h |-> 1000] >>

\* Where the container's border box sits in the viewport.
ContainerOrigin == [left |-> 20, top |-> 68]

ZeroBox == [left |-> 0, top |-> 0, width |-> 0, height |-> 0]

Max(a, b) == IF a >= b THEN a ELSE b
Min(a, b) == IF a <= b THEN a ELSE b

\* t/10 of a length.
Frac(t, len) == (t * len) \div 10

\* ------------------------------------------------------ coordinate mapper
NoView == [pageNumber |-> 0, el |-> <<0, 0>>]

\* Array.prototype.find on the registry: the first view of that page.
RECURSIVE FindView(_, _)
FindView(views, page) ==
  IF views = <<>> THEN NoView
  ELSE IF Head(views).pageNumber = page THEN Head(views)
  ELSE FindView(Tail(views), page)

\* A registry lookup that ignores the page number.
ViewOfAnyPage(views, chunk) ==
  IF views = <<>> THEN NoView ELSE Head(views)

\* pageViews.find((v) => v.pageNumber === chunk.page)
ViewOf(views, chunk) == FindView(views, chunk.page)

\* An origin taken from the far corner of the bbox.
RectStartFromFar(off, n0, n1, len) == off + Frac(n1, len)

\* pageRect.left - containerRect.left + nx0 * pageRect.width (and the same
\* for top): off is the difference of the two boxes' origins.
RectStart(off, n0, n1, len) == off + Frac(n0, len)

\* An extent measured from the page's origin instead of from n0.
RectExtentFromOrigin(n0, n1, len) == Max(MinSize, Frac(n1, len))

\* An extent without the 2-pixel floor.
RectExtentNoFloor(n0, n1, len) == Frac(n1 - n0, len)

\* Math.max(2, (nx1 - nx0) * pageRect.width) (and the same for height)
RectExtent(n0, n1, len) == Max(MinSize, Frac(n1 - n0, len))

\* computeRectsFromChunk, given the registry its closure holds and the live
\* boxes: containerBox is containerRef.current.getBoundingClientRect() and
\* boxOf[el] is el.getBoundingClientRect().
computeRectsFromChunk(chunk, views, containerBox, boxOf) ==
  IF chunk = NoChunk \/ Len(views) = 0 THEN <<>>
  ELSE LET view == ViewOf(views, chunk) IN
    IF view = NoView THEN <<>>
    ELSE LET pageRect == boxOf[view.el]
             nx0 == chunk.bbox_normalized[1]
             ny0 == chunk.bbox_normalized[2]
             nx1 == chunk.bbox_normalized[3]
             ny1 == chunk.bbox_normalized[4]
         IN << [id     |-> chunk.chunk_id,
                left   |-> RectStart(pageRect.left - containerBox.left,
                                     nx0, nx1, pageRect.width),
                top    |-> RectStart(pageRect.top - containerBox.top,
                                     ny0, ny1, pageRect.height),
                width  |-> RectExtent(nx0, nx1, pageRect.width),
                height |-> RectExtent(ny0, ny1, pageRect.height),
                page   |-> chunk.page] >>

\* containerRef.current.getBoundingClientRect() with containerRef.current
\* null (after unmount) is a TypeError; it is reached only past the two
\* early returns.
computeRectsThrows(chunk, views, hasContainer) ==
  /\ chunk # NoChunk
  /\ Len(views) # 0
  /\ ViewOf(views, chunk) # NoView
  /\ ~hasContainer

\* ----------------------------------------------------------------- state
VARIABLES
  mounted,        \* the view is mounted (containerRef.current is the div)
  selectedChunk,  \* the selectedChunk prop
  latestSelected, \* latestSelected.current
  cur,            \* the latest run of the load effect (its fileUrl)
  loads,          \* per run of loadPdf: where it is suspended, its locals
  children,       \* the page wrappers in the container, in document order
  pageViews,      \* the pageViews state (the registry)
  closureViews,   \* pageViews as captured by the committed render's callbacks
  highlights,     \* the highlights state (the published set)
  error,          \* the error state: 0 is null, l the message of load l
  loading,        \* the loading state
  rafPending,     \* rafPending.current
  rafQueue,       \* requestAnimationFrame callbacks not yet run
  timers,         \* setTimeout(scheduleRecompute, 50) callbacks not yet run
  roPending,      \* a ResizeObserver's first notification is due
  scrollTop,      \* container.scrollTop
  scrollTarget,   \* where a smooth scroll in progress is going, or NoTarget
  win,            \* which of WinSizes the container has
  onReadyCalls,   \* calls of onReady so far
  trig,           \* scheduleRecompute calls since the last frame callback
  last,           \* what the last frame callback did
  afterUnmount,   \* scheduled work seen running after the unmount
  events,         \* selections, resizes and user scrolls so far
  mIn,            \* mapper check: the inputs drawn
  mOut            \* mapper check: the result for them

vars == << mounted, selectedChunk, latestSelected, cur, loads, children,
           pageViews, closureViews, highlights, error, loading, rafPending,
           rafQueue, timers, roPending, scrollTop, scrollTarget, win,
           onReadyCalls, trig, last, afterUnmount, events, mIn, mOut >>

viewVars == << mounted, selectedChunk, latestSelected, cur, loads, children,
               pageViews, closureViews, highlights, error, loading,
               rafPending, rafQueue, timers, roPending, scrollTop,
               scrollTarget, win, onReadyCalls, trig, last, afterUnmount,
               events >>

NoTarget == 0 - 1

LoadIds == 1 .. MaxLoads

\* A page wrapper is named by the load that made it and its page number.
Wrapper(l, i) == << l, i >>
Els == (0 .. MaxLoads) \X (0 .. MaxPages)

\* The views array a load has pushed after rendering pages 1..k.
ViewsOf(l, k) == [i \in 1 .. k |-> [pageNumber |-> i, el |-> Wrapper(l, i)]]

\* ------------------------------------------------------------ live layout
RECURSIVE IndexIn(_, _)
IndexIn(el, kids) ==
  IF kids = <<>> THEN 0
  ELSE IF kids[Len(kids)] = el THEN Len(kids)
  ELSE IndexIn(el, SubSeq(kids, 1, Len(kids) - 1))

Stride == PageSize.h + MarginBottom

\* el.offsetTop: the container is the offset parent (position: relative).
OffsetTop(el, kids, isMounted) ==
  IF isMounted /\ IndexIn(el, kids) > 0
  THEN Padding + (IndexIn(el, kids) - 1) * Stride
  ELSE 0

\* el.clientHeight
ClientHeight(el, kids, isMounted) ==
  IF isMounted /\ IndexIn(el, kids) > 0 THEN PageSize.h ELSE 0

\* el.getBoundingClientRect() for every wrapper: a wrapper is a block-level
\* flex box as wide as the container's content box and as high as its
\* canvas; one that is not in the document has the zero box.
BoxOf(kids, top, w, isMounted) ==
  [el \in Els |->
     IF isMounted /\ IndexIn(el, kids) > 0
     THEN [left   |-> ContainerOrigin.left + Padding,
           top    |-> ContainerOrigin.top + OffsetTop(el, kids, isMounted) - top,
           width  |-> WinSizes[w].w - 2 * Padding,
           height |-> PageSize.h]
     ELSE ZeroBox]

ContainerBox(w) ==
  [left |-> ContainerOrigin.left, top |-> ContainerOrigin.top,
   width |-> WinSizes[w].w, height |-> WinSizes[w].h]

\* The largest scrollTop the container allows.
MaxScroll(kids, w) ==
  Max(0, 2 * Padding + Len(kids) * Stride - WinSizes[w].h)

Clamp(y, kids, w) == Min(Max(0, y), MaxScroll(kids, w))

\* -------------------------------------------------------------- scheduler
\* The three scheduler variables as one value, so that a handler that calls
\* scheduleRecompute more than once composes.
Sched == [rafPending |-> rafPending, rafQueue |-> rafQueue, trig |-> trig]

SetSched(s) ==
  /\ rafPending' = s.rafPending
  /\ rafQueue' = s.rafQueue
  /\ trig' = s.trig

\* The callback handed to requestAnimationFrame: it closes over the
\* registry of the render that made scheduleRecompute.  sel records the
\* selection at the time of the call (the callback itself does not hold it).
\* live records whether the view was mounted then.
FrameCallback(views) ==
  [views |-> views, sel |-> latestSelected', live |-> mounted]

\* A scheduleRecompute that does not look at the flag.
scheduleRecomputeNoFlag(s, views) ==
  [rafPending |-> TRUE,
   rafQueue   |-> Append(s.rafQueue, FrameCallback(views)),
   trig       |-> Min(s.trig + 1, MaxTrig)]

\* A scheduleRecompute whose pending flag belongs to one identity of the
\* callback: a call from another render does not see the flag set.
scheduleRecomputeOwnFlag(s, views) ==
  IF s.rafPending /\ s.rafQueue # <<>> /\ Head(s.rafQueue).views = views
  THEN [s EXCEPT !.trig = Min(s.trig + 1, MaxTrig)]
  ELSE [rafPending |-> TRUE,
        rafQueue   |-> Append(s.rafQueue, FrameCallback(views)),
        trig       |-> Min(s.trig + 1, MaxTrig)]

\* scheduleRecompute of the render whose registry is views.
scheduleRecompute(s, views) ==
  IF s.rafPending
  THEN [s EXCEPT !.trig = Min(s.trig + 1, MaxTrig)]
  ELSE [rafPending |-> TRUE,
        rafQueue   |-> Append(s.rafQueue, FrameCallback(views)),
        trig       |-> Min(s.trig + 1, MaxTrig)]

\* onScroll, onResize and the ResizeObserver callback.
onEvent(s, views) ==
  IF latestSelected' = NoChunk THEN s ELSE scheduleRecompute(s, views)

\* The MutationObserver callback: a timer when a chunk is selected.
onMutation(ts, views, observed) ==
  IF observed /\ latestSelected # NoChunk
  THEN Append(ts, [views |-> views])
  ELSE ts

\* What a frame callback did: calls of computeRectsFromChunk, whether it
\* called setHighlights and scrollTo, whether it threw.
\* hadChunk: latestSelected.current was a chunk when it ran; resel: that
\* chunk was another one than when the callback was scheduled.
NoCycle ==
  [ran |-> FALSE, calls |-> 0, published |-> FALSE, scrolled |-> FALSE,
   threw |-> FALSE, hadChunk |-> FALSE, resel |-> FALSE]

MapperIdle ==
  [chunk |-> NoChunk, pageBox |-> ZeroBox, containerBox |-> ZeroBox]

\* The state once the view has mounted (as the host mounts it, with no
\* chunk selected) and its effects have run: the first
\* load is at its HEAD request, the selection effect has called
\* scheduleRecompute, the listeners are attached.
InitView ==
  /\ mounted = TRUE
  /\ selectedChunk = NoChunk
  /\ latestSelected = selectedChunk
  /\ cur = 1
  /\ loads = [l \in LoadIds |->
               [stage |-> IF l = 1 THEN "head" ELSE "idle",
                cancelled |-> FALSE, n |-> 0, i |-> 0, late |-> {}]]
  /\ children = <<>>
  /\ pageViews = <<>>
  /\ closureViews = <<>>
  /\ highlights = <<>>
  /\ error = 0
  /\ loading = TRUE
  /\ rafPending = TRUE
  /\ rafQueue = << [views |-> <<>>, sel |-> selectedChunk, live |-> TRUE] >>
  /\ timers = <<>>
  /\ roPending = TRUE
  /\ scrollTop = 0
  /\ scrollTarget = NoTarget
  /\ win = 1
  /\ onReadyCalls = 0
  /\ trig = 1
  /\ last = NoCycle
  /\ afterUnmount = {}
  /\ events = 0

MapperIdleOut == [done |-> FALSE, rects |-> <<>>]

Init ==
  /\ InitView
  /\ mIn = MapperIdle
  /\ mOut = MapperIdleOut

\* -------------------------------------------------------- renders, props
\* One render pass and its effects, the selectedChunk prop being newSel:
\* the callbacks are re-created when pageViews has a new identity, the
\* selection effects store the prop in latestSelected and call
\* scheduleRecompute when the prop or scheduleRecompute changed, and the
\* listener effect re-attaches the listeners (a new ResizeObserver reports
\* once when it starts observing).
RenderPass(newSel) ==
  LET idChanged == pageViews # closureViews IN
  /\ closureViews' = pageViews
  /\ latestSelected' = newSel
  /\ SetSched(IF newSel # selectedChunk \/ idChanged
              THEN scheduleRecompute(Sched, pageViews)
              ELSE Sched)
  /\ roPending' = (roPending \/ idChanged)

\* The host passes another selectedChunk.
SelectChunk(c) ==
  /\ mounted
  /\ events < MaxEvents
  /\ events' = events + 1
  /\ c # selectedChunk
  /\ selectedChunk' = c
  /\ RenderPass(c)
  /\ UNCHANGED << mounted, cur, loads, children, pageViews, highlights,
                  error, loading, timers, scrollTop, scrollTarget, win,
                  onReadyCalls, last, afterUnmount, mIn, mOut >>

\* The state set by a finished load is rendered.
Render ==
  /\ mounted
  /\ pageViews # closureViews
  /\ RenderPass(selectedChunk)
  /\ UNCHANGED << mounted, selectedChunk, cur, loads, children, pageViews,
                  highlights, error, loading, timers, scrollTop,
                  scrollTarget, win, onReadyCalls, last, afterUnmount,
                  events, mIn, mOut >>

\* The load effect's cleanup: cancelled = true in the closure of the run.
Cancel(ls, l) == [ls EXCEPT ![l].cancelled = TRUE]

\* The cleanup left out.
StartLoadNoCancel(ls, l) == [ls EXCEPT ![l + 1].stage = "head"]

\* fileUrl (or onReady) changes: the cleanup of the previous run, then
\* loadPdf up to its first await.
StartLoad(ls, l) == [Cancel(ls, l) EXCEPT ![l + 1].stage = "head"]

ChangeFile ==
  /\ mounted
  /\ cur < MaxLoads
  /\ cur' = cur + 1
  /\ loads' = StartLoad(loads, cur)
  /\ error' = 0
  /\ loading' = TRUE
  /\ RenderPass(selectedChunk)
  /\ UNCHANGED << mounted, selectedChunk, children, pageViews, highlights,
                  timers, scrollTop, scrollTarget, win, onReadyCalls, last,
                  afterUnmount, events, mIn, mOut >>

\* The view unmounts: the effects' cleanups run and React clears the ref.
\* Neither cleanup cancels an animation frame or a timer.
Unmount ==
  /\ mounted
  /\ mounted' = FALSE
  /\ loads' = Cancel(loads, cur)
  /\ roPending' = FALSE
  /\ scrollTarget' = NoTarget
  /\ UNCHANGED << selectedChunk, latestSelected, cur, children, pageViews,
                  closureViews, highlights, error, loading, rafPending,
                  rafQueue, timers, scrollTop, win, onReadyCalls, trig,
                  last, afterUnmount, events, mIn, mOut >>

\* ------------------------------------------------------------------ load
Awaiting == {"head", "import", "getDocument", "getPage", "render"}

\* What a load did after its cleanup had run.
Late(l, what) == IF loads[l].cancelled THEN what ELSE {}

\* setError(msg); setLoading(false): both are no-ops once unmounted.
Fail(l) ==
  /\ loads' = [loads EXCEPT ![l].stage = "failed",
                            ![l].late = @ \cup Late(l, {"error", "loading"})]
  /\ error' = IF mounted THEN l ELSE error
  /\ loading' = IF mounted THEN FALSE ELSE loading

LoadOnly ==
  UNCHANGED << mounted, selectedChunk, latestSelected, cur, children,
               pageViews, closureViews, highlights, rafPending, rafQueue,
               timers, roPending, scrollTop, scrollTarget, win,
               onReadyCalls, trig, last, afterUnmount, events, mIn, mOut >>

\* The HEAD response is not ok.
HeadNotOk(l) ==
  /\ loads[l].stage = "head"
  /\ Fail(l)
  /\ LoadOnly

\* An awaited promise rejects: the catch block.
AwaitThrows(l) ==
  /\ loads[l].stage \in Awaiting
  /\ Fail(l)
  /\ LoadOnly

HeadOk(l) ==
  /\ loads[l].stage = "head"
  /\ loads' = [loads EXCEPT ![l].stage = "import"]
  /\ UNCHANGED << error, loading >>
  /\ LoadOnly

ImportDone(l) ==
  /\ loads[l].stage = "import"
  /\ loads' = [loads EXCEPT ![l].stage = "getDocument"]
  /\ UNCHANGED << error, loading >>
  /\ LoadOnly

\* A load with no check of cancelled.
SupersededNever(l) == FALSE

\* if (cancelled) return;
Superseded(l) == loads[l].cancelled

\* The document arrives with n pages: the only check of cancelled, then the
\* container is emptied and the page loop starts.
GetDocumentDone(l, n) ==
  /\ loads[l].stage = "getDocument"
  /\ IF Superseded(l)
     THEN /\ loads' = [loads EXCEPT ![l].stage = "discarded"]
          /\ UNCHANGED << children, timers, scrollTop, scrollTarget,
                          rafPending, rafQueue, trig, latestSelected >>
     ELSE /\ loads' = [loads EXCEPT ![l].stage = "getPage", ![l].n = n,
                                    ![l].i = 1,
                                    ![l].late = @ \cup Late(l, {"dom"})]
          /\ children' = <<>>
          /\ timers' = onMutation(timers, closureViews,
                                  mounted /\ children # <<>>)
          /\ Len(timers') <= MaxTimers
          /\ scrollTop' = 0
          /\ scrollTarget' = NoTarget
          /\ latestSelected' = latestSelected
          /\ SetSched(IF mounted /\ scrollTop # 0
                      THEN onEvent(Sched, closureViews) ELSE Sched)
  /\ UNCHANGED << mounted, selectedChunk, cur, pageViews, closureViews,
                  highlights, error, loading, roPending, win, onReadyCalls,
                  last, afterUnmount, events, mIn, mOut >>

GetPageDone(l) ==
  /\ loads[l].stage = "getPage"
  /\ loads' = [loads EXCEPT ![l].stage = "render"]
  /\ UNCHANGED << error, loading >>
  /\ LoadOnly

\* A page has rendered: its wrapper is appended; after the last page the
\* registry is set, loading is cleared and onReady is called.
RenderDone(l) ==
  /\ loads[l].stage = "render"
  /\ children' = Append(children, Wrapper(l, loads[l].i))
  /\ timers' = onMutation(timers, closureViews, mounted)
  /\ Len(timers') <= MaxTimers
  /\ IF loads[l].i < loads[l].n
     THEN /\ loads' = [loads EXCEPT ![l].stage = "getPage", ![l].i = @ + 1,
                                    ![l].late = @ \cup Late(l, {"dom"})]
          /\ UNCHANGED << pageViews, loading, onReadyCalls >>
     ELSE /\ loads' = [loads EXCEPT
                         ![l].stage = "done",
                         ![l].late = @ \cup Late(l, {"dom", "views",
                                                    "loading", "ready"})]
          /\ pageViews' = IF mounted THEN ViewsOf(l, loads[l].n)
                          ELSE pageViews
          /\ loading' = IF mounted THEN FALSE ELSE loading
          /\ onReadyCalls' = onReadyCalls + 1
  /\ UNCHANGED << mounted, selectedChunk, latestSelected, cur, closureViews,
                  highlights, error, rafPending, rafQueue, roPending,
                  scrollTop, scrollTarget, win, trig, last, afterUnmount,
                  events, mIn, mOut >>

\* ------------------------------------------------------- the frame cycle
\* A cycle that uses the selection of the time it was scheduled.
FrameChunkCaptured(cb) == cb.sel

\* const chunk = latestSelected.current;
FrameChunk(cb) == latestSelected

\* The registry the callback resolves against: computeRectsFromChunk and
\* pageViews of the render that made this scheduleRecompute, not the
\* pageViews state of the time it runs.
FrameViews(cb) == cb.views

\* Math.max(0, pageTop - container.clientHeight / 2 + pageEl.clientHeight / 2)
centerScroll(el) ==
  Max(0, OffsetTop(el, children, mounted) - (WinSizes[win].h \div 2)
         + (ClientHeight(el, children, mounted) \div 2))

\* A centring scroll issued whether or not there is a rectangle.
ScrollsAlways(rects, views) == mounted /\ views # <<>>

\* if (rects.length) { ... if (v && containerRef.current) ... scrollTo }
Scrolls(rects, views) ==
  /\ rects # <<>>
  /\ FindView(views, rects[1].page) # NoView
  /\ mounted

\* The element the centring scroll is computed from.
ScrollEl(rects, views) ==
  IF rects # <<>> THEN FindView(views, rects[1].page).el
  ELSE Head(views).el

\* container.scrollTo({ top, behavior: "smooth" })
ScrollTo(y) ==
  scrollTarget' = IF Clamp(y, children, win) = scrollTop THEN NoTarget
                  ELSE Clamp(y, children, win)

\* A cycle that returns without publishing when no chunk is selected.
HighlightsKept(chunk, rects) ==
  IF chunk = NoChunk THEN highlights ELSE rects

\* A cycle that adds its rectangles to the published ones.
HighlightsAppended(chunk, rects) ==
  IF chunk = NoChunk THEN <<>> ELSE highlights \o rects

\* The argument of setHighlights: [] when no chunk is selected, else rects.
HighlightsFor(chunk, rects) ==
  IF chunk = NoChunk THEN <<>> ELSE rects

\* The browser runs the pending animation-frame callback.
Frame ==
  /\ rafQueue # <<>>
  /\ LET cb     == Head(rafQueue)
         chunk  == FrameChunk(cb)
         views  == FrameViews(cb)
         throws == computeRectsThrows(chunk, views, mounted)
         rects  == computeRectsFromChunk(chunk, views, ContainerBox(win),
                     BoxOf(children, scrollTop, win, mounted))
         cycle  == [NoCycle EXCEPT
                      !.ran = TRUE,
                      !.hadChunk = (latestSelected # NoChunk),
                      !.resel = /\ latestSelected # NoChunk
                                /\ cb.sel # NoChunk
                                /\ cb.sel # latestSelected]
     IN
     /\ rafQueue' = Tail(rafQueue)
     /\ rafPending' = FALSE
     /\ trig' = 0
     /\ afterUnmount' = afterUnmount \cup
                          (IF ~mounted /\ cb.live THEN {"frame"} ELSE {})
     /\ IF chunk = NoChunk
        THEN /\ highlights' = IF mounted THEN HighlightsFor(chunk, rects)
                              ELSE highlights
             /\ last' = [cycle EXCEPT !.published = TRUE]
             /\ UNCHANGED scrollTarget
        ELSE IF throws
        THEN /\ last' = [cycle EXCEPT !.calls = 1, !.threw = TRUE]
             /\ UNCHANGED << highlights, scrollTarget >>
        ELSE /\ highlights' = IF mounted THEN HighlightsFor(chunk, rects)
                              ELSE highlights
             /\ IF Scrolls(rects, views)
                THEN /\ ScrollTo(centerScroll(ScrollEl(rects, views)))
                     /\ last' = [cycle EXCEPT !.calls = 1,
                                              !.published = TRUE,
                                              !.scrolled = TRUE]
                ELSE /\ UNCHANGED scrollTarget
                     /\ last' = [cycle EXCEPT !.calls = 1,
                                              !.published = TRUE]
  /\ UNCHANGED << mounted, selectedChunk, latestSelected, cur, loads,
                  children, pageViews, closureViews, error, loading, timers,
                  roPending, scrollTop, win, onReadyCalls, events, mIn, mOut >>

\* A 50 ms timer expires: scheduleRecompute of the render that made it.
TimerFire ==
  /\ timers # <<>>
  /\ timers' = Tail(timers)
  /\ latestSelected' = latestSelected
  /\ SetSched(scheduleRecompute(Sched, Head(timers).views))
  /\ afterUnmount' = afterUnmount \cup (IF ~mounted THEN {"timer"} ELSE {})
  /\ UNCHANGED << mounted, selectedChunk, cur, loads, children, pageViews,
                  closureViews, highlights, error, loading, roPending,
                  scrollTop, scrollTarget, win, onReadyCalls, last, events, mIn,
                  mOut >>

\* -------------------------------------------------------- viewport events
\* A ResizeObserver notification: delivered in the rendering update, after
\* the animation-frame callbacks of that frame have run.
ResizeObserved ==
  /\ mounted
  /\ roPending
  /\ rafQueue = <<>>
  /\ roPending' = FALSE
  /\ latestSelected' = latestSelected
  /\ SetSched(onEvent(Sched, closureViews))
  /\ UNCHANGED << mounted, selectedChunk, cur, loads, children, pageViews,
                  closureViews, highlights, error, loading, timers,
                  scrollTop, scrollTarget, win, onReadyCalls, last,
                  afterUnmount, events, mIn, mOut >>

\* The window is resized: the resize event, a scroll event when the scroll
\* position no longer fits, and a ResizeObserver notification to come.
Resize(w) ==
  /\ mounted
  /\ events < MaxEvents
  /\ events' = events + 1
  /\ w # win
  /\ win' = w
  /\ scrollTop' = Clamp(scrollTop, children, w)
  /\ scrollTarget' = IF scrollTarget = NoTarget
                        \/ Clamp(scrollTarget, children, w) = scrollTop'
                     THEN NoTarget
                     ELSE Clamp(scrollTarget, children, w)
  /\ roPending' = TRUE
  /\ latestSelected' = latestSelected
  /\ SetSched(IF scrollTop' # scrollTop
              THEN onEvent(onEvent(Sched, closureViews), closureViews)
              ELSE onEvent(Sched, closureViews))
  /\ UNCHANGED << mounted, selectedChunk, cur, loads, children, pageViews,
                  closureViews, highlights, error, loading, timers,
                  onReadyCalls, last, afterUnmount, mIn, mOut >>

\* The user scrolls the container to one of its ends.
UserScroll(y) ==
  /\ mounted
  /\ events < MaxEvents
  /\ events' = events + 1
  /\ y \in {0, MaxScroll(children, win)}
  /\ y # scrollTop
  /\ scrollTop' = y
  /\ scrollTarget' = NoTarget
  /\ latestSelected' = latestSelected
  /\ SetSched(onEvent(Sched, closureViews))
  /\ UNCHANGED << mounted, selectedChunk, cur, loads, children, pageViews,
                  closureViews, highlights, error, loading, timers,
                  roPending, win, onReadyCalls, last, afterUnmount, mIn,
                  mOut >>

\* One step of a smooth scroll: at most a page nearer its target.
SmoothNext ==
  IF scrollTarget > scrollTop
  THEN Min(scrollTarget, scrollTop + Stride)
  ELSE Max(scrollTarget, scrollTop - Stride)

SmoothStep ==
  /\ mounted
  /\ scrollTarget # NoTarget
  /\ scrollTop' = SmoothNext
  /\ scrollTarget' = IF SmoothNext = scrollTarget THEN NoTarget
                     ELSE scrollTarget
  /\ latestSelected' = latestSelected
  /\ SetSched(onEvent(Sched, closureViews))
  /\ UNCHANGED << mounted, selectedChunk, cur, loads, children, pageViews,
                  closureViews, highlights, error, loading, timers,
                  roPending, win, onReadyCalls, last, afterUnmount, events, mIn,
                  mOut >>

\* --------------------------------------------------------- specification
Next ==
  \/ \E c \in Selections : SelectChunk(c)
  \/ Render
  \/ ChangeFile
  \/ Unmount
  \/ \E l \in LoadIds : HeadNotOk(l)
  \/ \E l \in LoadIds : AwaitThrows(l)
  \/ \E l \in LoadIds : HeadOk(l)
  \/ \E l \in LoadIds : ImportDone(l)
  \/ \E l \in LoadIds : \E n \in 1 .. MaxPages : GetDocumentDone(l, n)
  \/ \E l \in LoadIds : GetPageDone(l)
  \/ \E l \in LoadIds : RenderDone(l)
  \/ Frame
  \/ TimerFire
  \/ ResizeObserved
  \/ \E w \in DOMAIN WinSizes : Resize(w)
  \/ \E y \in {0, MaxScroll(children, win)} : UserScroll(y)
  \/ SmoothStep

Spec == Init /\ [][Next]_vars

\* ------------------------------------ the view with a host that goes quiet
\* The host stops: from here on it selects nothing, changes no file, does
\* not resize, scroll or unmount.
HostStops ==
  /\ mounted
  /\ events < MaxEvents
  /\ events' = MaxEvents
  /\ UNCHANGED << mounted, selectedChunk, latestSelected, cur, loads,
                  children, pageViews, closureViews, highlights, error,
                  loading, rafPending, rafQueue, timers, roPending,
                  scrollTop, scrollTarget, win, onReadyCalls, trig, last,
                  afterUnmount, mIn, mOut >>

HostQuiet == events = MaxEvents

NextLive ==
  \/ \E c \in Selections : SelectChunk(c)
  \/ Render
  \/ (~HostQuiet /\ ChangeFile)
  \/ (~HostQuiet /\ Unmount)
  \/ HostStops
  \/ \E l \in LoadIds : HeadNotOk(l)
  \/ \E l \in LoadIds : AwaitThrows(l)
  \/ \E l \in LoadIds : HeadOk(l)
  \/ \E l \in LoadIds : ImportDone(l)
  \/ \E l \in LoadIds : \E n \in 1 .. MaxPages : GetDocumentDone(l, n)
  \/ \E l \in LoadIds : GetPageDone(l)
  \/ \E l \in LoadIds : RenderDone(l)
  \/ Frame
  \/ TimerFire
  \/ ResizeObserved
  \/ \E w \in DOMAIN WinSizes : Resize(w)
  \/ \E y \in {0, MaxScroll(children, win)} : UserScroll(y)
  \/ SmoothStep

\* The browser delivers every requested animation frame, expired timer,
\* observer notification and step of a smooth scroll, and React renders
\* every state update.  Nothing is assumed of the network or of the host.
FairDelivery ==
  /\ WF_vars(Frame)
  /\ WF_vars(TimerFire)
  /\ WF_vars(ResizeObserved)
  /\ WF_vars(SmoothStep)
  /\ WF_vars(Render)

SpecLive == Init /\ [][NextLive]_vars /\ FairDelivery

\* ------------------------------------------------- the mapper on its own
\* computeRectsFromChunk applied to drawn inputs: a registry of pages 1..3,
\* a chunk on page 2 or on page 5 with its bbox on a grid of tenths, and the
\* two live boxes.
MapperGrid == {0, 1, 2, 3, 5, 6, 10}

MapperPages == {2, 5}

MapperViews == ViewsOf(1, 3)

MapperPageBoxes ==
  { [left |-> 20, top |-> 68, width |-> 600, height |-> 800],
    [left |-> 32, top |-> 0 - 732, width |-> 300, height |-> 800],
    ZeroBox }

MapperContainerBoxes ==
  { [left |-> 20, top |-> 68, width |-> 624, height |-> 400],
    [left |-> 0, top |-> 0, width |-> 324, height |-> 1000] }

MapperInputs ==
  [chunk : [chunk_id : {"c1"}, page : MapperPages,
            bbox_normalized : MapperGrid \X MapperGrid \X MapperGrid
                              \X MapperGrid],
   pageBox : MapperPageBoxes,
   containerBox : MapperContainerBoxes]

InitMapper ==
  /\ InitView
  /\ mIn \in MapperInputs
  /\ mOut = MapperIdleOut

MapperApply ==
  /\ ~mOut.done
  /\ mIn # MapperIdle
  /\ mOut' = [done |-> TRUE,
              rects |-> computeRectsFromChunk(mIn.chunk, MapperViews,
                          mIn.containerBox,
                          [el \in {Wrapper(1, i) : i \in 1 .. 3} |->
                             mIn.pageBox])]
  /\ UNCHANGED << viewVars, mIn >>

SpecMapper == InitMapper /\ [][MapperApply]_vars

\* ------------------------------------------------ properties: the mapper
\* The inputs of the mapper check, named as the claims name them.
mX0 == mIn.chunk.bbox_normalized[1]
mY0 == mIn.chunk.bbox_normalized[2]
mX1 == mIn.chunk.bbox_normalized[3]
mY1 == mIn.chunk.bbox_normalized[4]
mInRegistry == \E i \in 1 .. Len(MapperViews) :
                 MapperViews[i].pageNumber = mIn.chunk.page
mRelLeft == mIn.pageBox.left - mIn.containerBox.left
mRelTop == mIn.pageBox.top - mIn.containerBox.top

\* The spec's scenario: a 600x800 page whose top-left corner is the
\* container's, chunk c1 on page 2 with bbox (0.1, 0.2, 0.5, 0.6).
mScenario ==
  /\ mIn.chunk.page = 2
  /\ mIn.chunk.bbox_normalized = <<1, 2, 5, 6>>
  /\ mIn.pageBox = [left |-> 20, top |-> 68, width |-> 600, height |-> 800]
  /\ mRelLeft = 0
  /\ mRelTop = 0

\* C6: for every chunk whose page is in the registry the mapper returns
\* exactly one rectangle, with left = pageBox.left - containerBox.left +
\* x0 * pageBox.width, top = pageBox.top - containerBox.top + y0 *
\* pageBox.height, width = max(2, (x1 - x0) * pageBox.width), height =
\* max(2, (y1 - y0) * pageBox.height) and the chunk's id and page; width
\* and height are at least 2 also for x0 = x1 or y0 = y1; the scenario
\* gives left 60, top 160, width 240, height 320, page 2.
C6_CoordinateMapping ==
  (mOut.done /\ mInRegistry) =>
    /\ Len(mOut.rects) = 1
    /\ LET r == mOut.rects[1]
           w == ((mX1 - mX0) * mIn.pageBox.width) \div 10
           h == ((mY1 - mY0) * mIn.pageBox.height) \div 10
       IN /\ r.left = mRelLeft + (mX0 * mIn.pageBox.width) \div 10
          /\ r.top = mRelTop + (mY0 * mIn.pageBox.height) \div 10
          /\ r.width = (IF w > 2 THEN w ELSE 2)
          /\ r.height = (IF h > 2 THEN h ELSE 2)
          /\ r.width >= 2
          /\ r.height >= 2
          /\ r.page = mIn.chunk.page
          /\ r.id = mIn.chunk.chunk_id
          /\ mScenario =>
               r = [id |-> "c1", left |-> 60, top |-> 160, width |-> 240,
                    height |-> 320, page |-> 2]

\* The scenario has been mapped.
C6_Witness ==
  /\ mOut.done
  /\ mScenario
  /\ mOut.rects # <<>>
  /\ mOut.rects[1].left = 60

\* C7: for every chunk with 0 <= x0 <= x1 <= 1 and 0 <= y0 <= y1 <= 1
\* whose page is in the registry, the rectangle lies inside the page's box
\* in container-relative coordinates, and passes its right or bottom edge
\* by at most the 2-pixel floor.
C7_Containment ==
  (/\ mOut.done
   /\ mInRegistry
   /\ mX0 <= mX1
   /\ mY0 <= mY1) =>
    /\ Len(mOut.rects) = 1
    /\ LET r == mOut.rects[1] IN
       /\ r.left >= mRelLeft
       /\ r.top >= mRelTop
       /\ r.left + r.width <= mRelLeft + mIn.pageBox.width + 2
       /\ r.top + r.height <= mRelTop + mIn.pageBox.height + 2

\* A zero-width bbox on the right edge has been mapped: the floor takes the
\* rectangle past the page's right edge.
C7_Witness ==
  /\ mOut.done
  /\ mInRegistry
  /\ mX0 = 10
  /\ mX1 = 10
  /\ mY0 <= mY1
  /\ mIn.pageBox.width = 600
  /\ mOut.rects # <<>>
  /\ mOut.rects[1].left + mOut.rects[1].width = mRelLeft + 602

\* ------------------------------------------- properties: synchronisation
\* A step in which the browser runs an animation-frame callback.
FrameStep == Len(rafQueue') < Len(rafQueue)

\* The registry the callback about to run resolves against.
CycleViews == Head(rafQueue).views

\* C1: any number N >= 1 of scheduleRecompute calls since the last frame
\* callback leave exactly one callback pending (none when N = 0), and the
\* callback, when it runs, calls computeRectsFromChunk at most once: once
\* when a chunk is selected, not at all when none is.
C1_Coalescing ==
  /\ Len(rafQueue) <= 1
  /\ (trig >= 1) <=> (Len(rafQueue) = 1)
  /\ rafPending <=> (Len(rafQueue) = 1)
  /\ last.ran => last.calls = (IF last.hadChunk THEN 1 ELSE 0)

\* Two or more triggers since the last cycle, with a chunk selected, and one
\* callback pending; an earlier cycle has mapped a chunk once.
C1_Witness ==
  /\ trig >= 2
  /\ Len(rafQueue) = 1
  /\ latestSelected # NoChunk
  /\ last.ran
  /\ last.calls = 1
  /\ last.published

\* C2: a load whose effect has been re-run while it was in flight performs
\* no setPageViews, no onReady call and no change to the container's
\* children afterwards.
C2_SupersededLoadInert ==
  \A l \in LoadIds :
    l < cur => loads[l].late \cap {"views", "ready", "dom"} = {}

C5_ResolutionMiss ==
  [][(/\ FrameStep
      /\ latestSelected # NoChunk
      /\ FindView(CycleViews, latestSelected.page) = NoView) =>
       /\ last'.published
       /\ ~last'.scrolled
       /\ ~last'.threw
       /\ scrollTarget' = scrollTarget
       /\ error' = error
       /\ mounted => highlights' = <<>>]_vars

\* The chunk of page 2 is selected over a one-page registry, a cycle has
\* run, and nothing is published.
C5_Witness ==
  /\ mounted
  /\ selectedChunk # NoChunk
  /\ Len(pageViews) = 1
  /\ closureViews = pageViews
  /\ selectedChunk.page = 2
  /\ rafQueue = <<>>
  /\ ~roPending
  /\ last.ran
  /\ last.hadChunk
  /\ last.published
  /\ highlights = <<>>
  /\ error = 0

\* C8: the published set has at most one member, and a cycle replaces it by
\* the empty set or by the one rectangle of the chunk selected when the
\* cycle runs (its id and page).
C8_SingleHighlight ==
  /\ [](Len(highlights) <= 1)
  /\ [][(FrameStep /\ mounted) =>
          \A i \in 1 .. Len(highlights') :
            /\ highlights'[i].id = latestSelected.chunk_id
            /\ highlights'[i].page = latestSelected.page]_vars

\* A second rectangle has replaced a first one.
C8_Witness ==
  /\ mounted
  /\ last.ran
  /\ last.resel
  /\ Len(highlights) = 1
  /\ highlights[1].id = "B"
  /\ highlights[1].page = 2

\* C9: from the start of a new load on, the registry holds no PageView of
\* an earlier load.
C9_RegistryOfLatestLoad ==
  \A i \in 1 .. Len(pageViews) : pageViews[i].el[1] = cur

\* C10: after the unmount no frame callback and no timer is pending, and
\* none created before it runs.
C10_NoWorkAfterUnmount ==
  ~mounted => (rafQueue = <<>> /\ timers = <<>> /\ afterUnmount = {})

\* C11: onReady is called at most once while the view lives: not again
\* after a later successful load, nor by a load that was superseded.
C11_OnReadyOnce == onReadyCalls <= 1

\* C12: a load that fails after it was superseded (a HEAD response that is
\* not ok, or a rejected await) leaves error and loading as they are; the
\* error shown is never that of a load older than the latest-started one.
C12_StaleFailureSilent ==
  /\ [](error \in {0, cur})
  /\ [][\A l \in LoadIds :
         (l < cur /\ loads[l].stage # "failed" /\ loads'[l].stage = "failed")
           => (error' = error /\ loading' = loading)]_vars

\* C13: a cycle that runs while the container is not mounted
\* (containerRef.current is null), or while the chunk's page has no rendered
\* element in the registry, publishes the empty set and does not throw.
C13_UnresolvableGeometry ==
  [][(/\ FrameStep
      /\ latestSelected # NoChunk
      /\ (~mounted \/ FindView(CycleViews, latestSelected.page) = NoView)) =>
       /\ last'.published
       /\ ~last'.threw
       /\ mounted => highlights' = <<>>]_vars

\* The latest-started load fails in this step.
LatestFails == loads[cur].stage # "failed" /\ loads'[cur].stage = "failed"

\* C14: when the latest-started load fails, the view shows that load's
\* error with loading false until the next load starts; the failing load
\* rebuilds no registry and calls no onReady, no later run of the load
\* effect has started, and the start of the next load clears the error.
C14_LoadFailure ==
  /\ []((mounted /\ loads[cur].stage = "failed") =>
          /\ error = cur
          /\ ~loading
          /\ \A l \in LoadIds : l > cur => loads[l].stage = "idle")
  /\ [][LatestFails =>
          /\ pageViews' = pageViews
          /\ onReadyCalls' = onReadyCalls
          /\ cur' = cur]_vars
  /\ [][cur' # cur => error' = 0]_vars

\* The part of C14 that is one step of the failing load.
C14_FailureStep ==
  /\ [][(LatestFails /\ mounted) =>
          /\ error' = cur
          /\ ~loading'
          /\ pageViews' = pageViews
          /\ onReadyCalls' = onReadyCalls
          /\ cur' = cur]_vars
  /\ [][cur' # cur => error' = 0]_vars

\* Nothing is left to run: no load in flight, the last state rendered, no
\* frame callback, timer, observer notification or smooth scroll pending.
Quiescent ==
  /\ \A l \in LoadIds : loads[l].stage \notin Awaiting
  /\ closureViews = pageViews
  /\ rafQueue = <<>>
  /\ timers = <<>>
  /\ ~roPending
  /\ scrollTarget = NoTarget

\* C15: every cycle resolves the chunk against the registry that is current
\* when it runs, also when its frame callback or its 50 ms timer was set up
\* before the registry was rebuilt; so when the latest load has completed,
\* the selected chunk's page is in the registry and nothing is left to run,
\* the published set is that chunk's rectangle and not the empty set.
C15_CurrentRegistry ==
  /\ [][(FrameStep /\ mounted) =>
          (CycleViews = pageViews \/ CycleViews = closureViews)]_vars
  /\ []((/\ mounted
          /\ Quiescent
          /\ loads[cur].stage = "done"
          /\ selectedChunk # NoChunk
          /\ FindView(pageViews, selectedChunk.page) # NoView) =>
           /\ Len(highlights) = 1
           /\ highlights[1].id = selectedChunk.chunk_id)

CentreTarget(el) ==
  LET t == OffsetTop(el, children, mounted) - (WinSizes[win].h \div 2)
           + (ClientHeight(el, children, mounted) \div 2)
  IN IF t > 0 THEN t ELSE 0

\* C17: a cycle that publishes a rectangle issues one scrollTo, whose top is
\* max(0, pageTop - containerHeight/2 + pageHeight/2) for the element of
\* the rectangle's page; a cycle that publishes the empty set issues none.
\* This holds whatever requested the cycle (selection, scroll, resize or
\* mutation).
C17_CenteringScroll ==
  [][FrameStep =>
       IF mounted /\ highlights' # <<>>
       THEN /\ last'.published
            /\ last'.scrolled
            /\ LET el == FindView(CycleViews, highlights'[1].page).el
                    y  == Clamp(CentreTarget(el), children, win)
               IN scrollTarget' = IF y = scrollTop THEN NoTarget ELSE y
       ELSE /\ ~last'.scrolled
            /\ scrollTarget' = scrollTarget]_vars

\* A centring scroll has moved the container to its target, and the cycle
\* requested by its scroll events has published the rectangle and issued
\* scrollTo again.
C17_Witness ==
  /\ mounted
  /\ last.published
  /\ last.scrolled
  /\ highlights # <<>>
  /\ rafQueue = <<>>
  /\ scrollTarget = NoTarget
  /\ scrollTop > 0
  /\ scrollTop = CentreTarget(FindView(closureViews, highlights[1].page).el)

\* The page element the selected chunk resolves to in the registry.
SelectedEl == FindView(pageViews, selectedChunk.page).el

\* The host is quiet, no load is in flight, and a chunk is selected whose
\* page is in the registry.
QuietWithChunk ==
  /\ mounted
  /\ HostQuiet
  /\ \A l \in LoadIds : loads[l].stage \notin Awaiting
  /\ selectedChunk # NoChunk
  /\ FindView(pageViews, selectedChunk.page) # NoView

\* No frame callback, no timer, no smooth scroll under way, and the
\* container at the centring target of the chunk's page.
Settled ==
  /\ rafQueue = <<>>
  /\ ~rafPending
  /\ timers = <<>>
  /\ scrollTarget = NoTarget
  /\ scrollTop = Clamp(CentreTarget(SelectedEl), children, win)

\* C18: with a chunk selected whose page is in the registry and no further
\* events from the host, fair delivery of frames, timers and scroll events
\* leads to a state, kept from then on, with no frame callback pending, no
\* timer pending and the container at the centring target: the loop of
\* scroll, recompute and scroll ends.
C18_Quiescence == [](QuietWithChunk => <>[]Settled)

\* C19: while the view is mounted, loading is true whenever the
\* latest-started load is in flight and false once it has succeeded or
\* failed; in particular a superseded load that finishes does not clear it
\* while the latest load is running.
C19_LoadingIndicator ==
  mounted =>
    /\ loads[cur].stage \in Awaiting => loading
    /\ loads[cur].stage \in {"done", "failed"} => ~loading

====
